---- MODULE Spec2Model ----
(***************************************************************************)
(* A model of albibenni/proxies_log:                                       *)
(*   - the SNI blocking tunnel proxy of README.md (extractSNI, the         *)
(*     BLOCKED_DOMAINS set and the net.createServer connection handler);   *)
(*   - the BrowserTrafficLogger of src/server.ts (plain request            *)
(*     forwarding, CONNECT tunnelling, the audit log and its statistics).  *)
(* Buffers are sequences of bytes (0..255); data[i] of the source is       *)
(* data[i + 1] here.  Host names inside buffers are sequences of byte      *)
(* values; strings of the HTTP proxy are sequences of one-character        *)
(* strings.                                                                *)
(***************************************************************************)
EXTENDS Integers, Sequences, FiniteSets, TLC

VARIABLES
    \* ---- extractSNI applied to one buffer (README.md:37-78)
    pbuf,           \* the buffer handed to extractSNI
    hello,          \* the ClientHello the buffer was built from, and whether it is intact
    pstage,         \* "input" | "ready" | "done"
    parsed,         \* the outcome of extractSNI(pbuf), once pstage = "done"
    \* ---- one connection of the SNI blocking proxy (README.md:80-105)
    sphase,         \* "accepted" | "blocked" | "connecting" | "tunneling" | "crashed"
    firstData,      \* data: the chunk the once('data') handler was called with
    sni,            \* sni: the outcome of extractSNI(data)
    clientSocket,   \* "open" | "ended" (end() was called) | "destroyed"
    clientPiped,    \* clientSocket.pipe(remoteSocket).pipe(clientSocket) was set up
    remoteSocket,   \* "none" | "connecting" | "open" | "ended" | "destroyed"
    remoteWritten,  \* the chunks written to remoteSocket, in order
    clientWritten,  \* the chunks written to clientSocket, in order
    received,       \* every chunk the client socket delivered, in order
    connects,       \* the number of net.connect calls of this connection
    \* ---- BrowserTrafficLogger: the audit log (server.ts:17-18)
    logEntries,     \* this.logEntries
    uniqueDomains,  \* this.uniqueDomains
    appended,       \* how many entries logRequest appended since the last clearLogs
    lastStats,      \* what getStats returned last, with the log it was called on
    exportFile,     \* what exportLogs wrote last
    \* ---- one plain request at a time (server.ts:50-158)
    req,            \* the IncomingMessage: its url, Host header and method
    hphase,         \* "idle" | "rejected" | "forwarding" | "responding" | "done"
                    \* | "failed" | "thrown"
    proxyReq,       \* the options of the http.request issued, or NoRequest
    res,            \* the ServerResponse: header blocks sent, writeHead calls, ended
    requests,       \* the number of requests handled so far
    \* ---- one CONNECT request (server.ts:160-197)
    cphase,         \* "idle" | "connecting" | "established" | "failed"
    connectReq,     \* the request: its url and the head buffer
    target,         \* the port and host net.connect was called with
    tunnelClient,   \* clientSocket: "open" | "ended" | "destroyed"
    serverSocket,   \* "none" | "connecting" | "connecting-ended" (end() was
                    \* called before the connect) | "open" | "ended" | "destroyed"
    tunnelPiped,    \* the two pipes of server.ts:184-185 are set up
    tunnelIo,       \* the writes to either socket (ok: the socket was writable)
                    \* and the pipe set-up, in order
    clientPending,  \* chunks the paused client socket holds until it is piped
    clientSent,     \* the chunks the client sent after the head, in order
    serverSent,     \* the chunks the upstream sent, in order
    tunnelConnects  \* the number of net.connect calls for this request

parseVars == <<pbuf, hello, pstage, parsed>>
sniVars == <<sphase, firstData, sni, clientSocket, clientPiped, remoteSocket,
             remoteWritten, clientWritten, received, connects>>
logVars == <<logEntries, uniqueDomains, appended>>
statsVars == <<lastStats, exportFile>>
httpVars == <<req, hphase, proxyReq, res, requests>>
connectVars == <<cphase, connectReq, target, tunnelClient, serverSocket,
                 tunnelPiped, tunnelIo, clientPending, clientSent, serverSent,
                 tunnelConnects>>
vars == <<parseVars, sniVars, logVars, statsVars, httpVars, connectVars>>

\* ------------------------------------------------------------------ bounds

\* longest session id of a generated ClientHello
MaxSid == 1
\* most cipher suites (2 bytes each) of a generated ClientHello
MaxCipher == 1
\* most extensions placed before the server-name extension
MaxPre == 1
\* most compression methods of a generated ClientHello (at least one)
MaxComp == 2

\* ------------------------------------------------------------ byte helpers

Min(a, b) == IF a < b THEN a ELSE b

\* n bytes of value b
Fill(n, b) == [k \in 1..n |-> b]

\* a 16-bit value as two big-endian bytes
U16Bytes(n) == <<(n \div 256) % 256, n % 256>>

\* data.slice(from, to): both ends clamped to the buffer (a Buffer never
\* yields bytes it does not hold)
Slice(data, from, to) ==
    LET t == Min(to, Len(data))
    IN  IF from >= t THEN <<>> ELSE [k \in 1..(t - from) |-> data[from + k]]

\* buf.toString('utf8') on the bytes of a host name: a byte below 0x80 is the
\* code point itself; a byte that starts no valid sequence decodes to U+FFFD
Utf8ToString(bytes) ==
    [k \in 1..Len(bytes) |-> IF bytes[k] < 128 THEN bytes[k] ELSE 65533]

\* data.readUInt16BE(i), for i with i + 2 <= data.length
ReadUInt16BE(data, i) == data[i + 1] * 256 + data[i + 2]

\* ------------------------------------------------------------- extractSNI

ResNull(reads) == [kind |-> "null", sni |-> <<>>, reads |-> reads]
ResThrow(reads) == [kind |-> "throw", sni |-> <<>>, reads |-> reads]
ResString(s, reads) == [kind |-> "string", sni |-> s, reads |-> reads]

\* the body of the server-name branch (README.md:66-73), i just after the
\* 4-byte extension header.  readUInt16BE raises ERR_OUT_OF_RANGE when its two
\* bytes are not both inside the buffer; data[i + 4] outside it is undefined.
SniBranch(data, i, reads) ==
    LET len == Len(data)
        r1  == reads \cup {i + 2, i + 3}
        r2  == r1 \cup {i + 4}
        r3  == r2 \cup {i + 5, i + 6}
    IN  IF i + 4 > len THEN ResThrow(r1)
        ELSE IF i + 7 > len THEN ResThrow(r3)
        ELSE LET sniLen == ReadUInt16BE(data, i + 5)
             IN  ResString(Utf8ToString(Slice(data, i + 7, i + 7 + sniLen)), r3)

\* the extension loop (README.md:61-75)
RECURSIVE ExtLoop(_, _, _, _)
ExtLoop(data, i, end, reads) ==
    IF ~(i + 4 <= end /\ i + 4 <= Len(data)) THEN ResNull(reads)
    ELSE LET extType == ReadUInt16BE(data, i)
             extLen  == ReadUInt16BE(data, i + 2)
             r       == reads \cup {i, i + 1, i + 2, i + 3}
             j       == i + 4
         IN  IF extType = 0 /\ j + extLen <= Len(data)
             THEN SniBranch(data, j, r)
             ELSE ExtLoop(data, j + extLen, end, r)

\* a faulty variant of the guard of README.md:40: the record type is not checked
ExtractHeadUnchecked(data) == [stop |-> FALSE, reads |-> {0}]

\* README.md:38-40: the record type byte.  data[0] of an empty buffer is
\* undefined, which is not 0x16.
ExtractHead(data) ==
    [stop |-> (Len(data) = 0 \/ data[1] # 22), reads |-> {0}]

\* extractSNI (README.md:37-78).  The outcome is "null", "string" (with the
\* host name) or "throw" (an exception leaves the function); reads is the set
\* of indices the function asked the buffer for.
extractSNI(data) ==
    LET len  == Len(data)
        head == ExtractHead(data)
    IN  IF head.stop THEN ResNull(head.reads)
        ELSE IF 43 >= len THEN ResNull(head.reads)
        ELSE
        LET sessionIDLength == data[43 + 1]
            i1 == 43 + 1 + sessionIDLength
            r1 == head.reads \cup {43}
        IN  IF i1 + 2 > len THEN ResNull(r1)
            ELSE
            LET cipherSuiteLength == ReadUInt16BE(data, i1)
                i2 == i1 + 2 + cipherSuiteLength
                r2 == r1 \cup {i1, i1 + 1, i2}
            IN  \* README.md:53-57: data[i2] past the end is undefined, i
                \* becomes NaN, the guard of line 56 is false for NaN and
                \* readUInt16BE(NaN) raises ERR_OUT_OF_RANGE
                IF i2 >= len THEN ResThrow(r2)
                ELSE
                LET compressionMethodLength == data[i2 + 1]
                    i3 == i2 + 1 + compressionMethodLength
                IN  IF i3 + 2 > len THEN ResNull(r2)
                    ELSE
                    LET extensionsLength == ReadUInt16BE(data, i3)
                        i4 == i3 + 2
                    IN  ExtLoop(data, i4, i4 + extensionsLength,
                                r2 \cup {i3, i3 + 1})

\* --------------------------------------------------- ClientHello buffers

\* host names, as bytes: "example.com", "www.facebook.com", "a.io"
ExampleCom == <<101, 120, 97, 109, 112, 108, 101, 46, 99, 111, 109>>
WwwFacebookCom ==
    <<119, 119, 119, 46, 102, 97, 99, 101, 98, 111, 111, 107, 46, 99, 111, 109>>
AIo == <<97, 46, 105, 111>>

\* README.md:31-34
BLOCKED_DOMAINS == {WwwFacebookCom, ExampleCom}

\* the names of generated ClientHellos: "example.com", "a.io" and "a"
HelloHosts == {ExampleCom, AIo, <<97>>}

\* one extension: type, length, payload
Extension(type, payload) == U16Bytes(type) \o U16Bytes(Len(payload)) \o payload

\* the server-name extension (type 0): list length, name type 0, name length, name
ServerNameExt(host) ==
    Extension(0, U16Bytes(Len(host) + 3) \o <<0>> \o U16Bytes(Len(host)) \o host)

\* extensions that are not the server-name extension: supported_groups (10)
\* with a payload, and an empty extended_master_secret (23)
OtherExts == {Extension(10, <<0, 2, 0, 29>>), Extension(23, <<>>)}

RECURSIVE Concat(_)
Concat(ss) == IF ss = <<>> THEN <<>> ELSE Head(ss) \o Concat(Tail(ss))

\* a TLS record holding one ClientHello: 5 bytes of record header, 38 bytes of
\* handshake type, length, version and random, then session id, cipher suites,
\* compression methods and extensions
ClientHello(sid, ciphers, comp, pre, host) ==
    LET exts == Concat(pre) \o ServerNameExt(host)
        tail == <<sid>> \o Fill(sid, 7)
                \o U16Bytes(2 * ciphers) \o Fill(2 * ciphers, 19)
                \o <<comp>> \o Fill(comp, 0)
                \o U16Bytes(Len(exts)) \o exts
        hs   == <<3, 3>> \o Fill(32, 170) \o tail
        rec  == <<1, 0>> \o U16Bytes(Len(hs)) \o hs
    IN  <<22, 3, 1>> \o U16Bytes(Len(rec)) \o rec

PreLists == UNION {[1..n -> OtherExts] : n \in 0..MaxPre}

HelloParams ==
    [sid : 0..MaxSid, ciphers : 0..MaxCipher, comp : 1..MaxComp,
     pre : PreLists, host : HelloHosts]

HelloOf(p) == ClientHello(p.sid, p.ciphers, p.comp, p.pre, p.host)

\* byte values written over a byte of the buffer
CorruptValues == {0, 1, 255}

\* --------------------------------------------------- extractSNI, applied

NoResult == [kind |-> "none", sni |-> <<>>, reads |-> {}]

ParseInit ==
    /\ \E p \in HelloParams :
          /\ hello = [host |-> p.host, sid |-> p.sid, ciphers |-> p.ciphers,
                       comp |-> p.comp, npre |-> Len(p.pre), intact |-> TRUE]
          /\ pbuf = HelloOf(p)
    /\ pstage = "input"
    /\ parsed = NoResult

\* the first read delivers only the first k bytes
Truncate ==
    /\ pstage = "input"
    /\ \E k \in 0..(Len(pbuf) - 1) :
          pbuf' = SubSeq(pbuf, 1, k)
    /\ hello' = [hello EXCEPT !.intact = FALSE]
    /\ pstage' = "ready"
    /\ UNCHANGED parsed

\* the client sends a different byte at one position: the record type, or any
\* byte behind the fixed 43-byte header
Corrupt ==
    /\ pstage = "input"
    /\ \E p \in {1} \cup (44..Len(pbuf)), v \in CorruptValues :
          /\ pbuf[p] # v
          /\ pbuf' = [pbuf EXCEPT ![p] = v]
    /\ hello' = [hello EXCEPT !.intact = FALSE]
    /\ pstage' = "ready"
    /\ UNCHANGED parsed

Parse ==
    /\ pstage \in {"input", "ready"}
    /\ parsed' = extractSNI(pbuf)
    /\ pstage' = "done"
    /\ UNCHANGED <<pbuf, hello>>

\* the parser at rest, for the specifications of the other components
ParseIdle ==
    /\ pbuf = <<>>
    /\ hello = [host |-> <<>>, sid |-> 0, ciphers |-> 0, comp |-> 0,
                npre |-> 0, intact |-> FALSE]
    /\ pstage = "done"
    /\ parsed = NoResult

\* ------------------------------------------- the SNI blocking proxy

\* most chunks the client sends after its first, and most the upstream sends
MaxChunks == 2

\* payloads of the chunks that follow the first
Chunks == {<<23>>, <<24>>}

\* a first chunk laid out the way extractSNI reads it: the name length 5
\* bytes and the name 7 bytes into the body of extension 0
HelloAsRead(host) ==
    LET ext  == Extension(0, <<0, 0>> \o U16Bytes(Len(host) + 3) \o <<0>>
                             \o U16Bytes(Len(host)) \o host)
        tail == <<0>> \o U16Bytes(2) \o <<19, 1>> \o <<1, 0>>
                \o U16Bytes(Len(ext)) \o ext
        hs   == <<3, 3>> \o Fill(32, 170) \o tail
        rec  == <<1, 0>> \o U16Bytes(Len(hs)) \o hs
    IN  <<22, 3, 1>> \o U16Bytes(Len(rec)) \o rec

\* "Example.com"
UpperExampleCom == <<69>> \o Tail(ExampleCom)

\* the first chunks a client sends: ClientHellos for blocked and other names,
\* in the standard layout and in the layout extractSNI reads, a ClientHello
\* cut right behind its cipher suites, one cut inside the server-name
\* extension, and the start of a plain HTTP request
FirstChunks ==
    {HelloAsRead(h) : h \in {ExampleCom, WwwFacebookCom, AIo, UpperExampleCom}}
    \cup {ClientHello(0, 1, 1, <<>>, h) : h \in {ExampleCom, AIo}}
    \cup {SubSeq(ClientHello(0, 1, 1, <<>>, AIo), 1, 48),
          SubSeq(ClientHello(0, 1, 1, <<>>, AIo), 1, 57),
          <<71, 69, 84, 32, 47>>}

\* README.md:84: sni && BLOCKED_DOMAINS.has(sni).  null and the empty string
\* are falsy; Set.has compares strings exactly.
IsBlockedNever(s) == FALSE

IsBlocked(s) == s.kind = "string" /\ s.sni # <<>> /\ s.sni \in BLOCKED_DOMAINS

\* README.md:91-94, the net.connect callback's writes to remoteSocket
ConnectCallbackNoReplay(d) == <<>>

ConnectCallbackWrites(d) == <<d>>

SniInit ==
    /\ sphase = "accepted"
    /\ firstData = <<>>
    /\ sni = NoResult
    /\ clientSocket = "open"
    /\ clientPiped = FALSE
    /\ remoteSocket = "none"
    /\ remoteWritten = <<>>
    /\ clientWritten = <<>>
    /\ received = <<>>
    /\ connects = 0

\* README.md:81-94: the once('data') handler, called with the first chunk.  An
\* exception of extractSNI leaves the handler uncaught and ends the process.
ClientFirstData ==
    /\ sphase = "accepted" /\ clientSocket = "open"
    /\ \E d \in FirstChunks :
          LET s == extractSNI(d)
          IN  /\ firstData' = d
              /\ sni' = s
              /\ received' = <<d>>
              /\ IF s.kind = "throw"
                 THEN /\ sphase' = "crashed"
                      /\ clientSocket' = "destroyed"
                      /\ UNCHANGED <<remoteSocket, connects>>
                 ELSE IF IsBlocked(s)
                 THEN /\ sphase' = "blocked"
                      /\ clientSocket' = "ended"
                      /\ UNCHANGED <<remoteSocket, connects>>
                 ELSE /\ sphase' = "connecting"
                      /\ remoteSocket' = "connecting"
                      /\ connects' = connects + 1
                      /\ UNCHANGED clientSocket
    /\ UNCHANGED <<clientPiped, remoteWritten, clientWritten>>

\* the client socket delivers a later chunk.  The once('data') listener is
\* gone and the socket stays flowing: until the pipe is set up the chunk has
\* no consumer.  Once piped, it is written to remoteSocket while that is
\* writable.
ClientData ==
    /\ sphase \in {"blocked", "connecting", "tunneling"}
    /\ clientSocket # "destroyed"
    /\ Len(received) <= MaxChunks
    /\ \E c \in Chunks :
          /\ received' = Append(received, c)
          /\ remoteWritten' =
                IF clientPiped /\ remoteSocket = "open"
                THEN Append(remoteWritten, c) ELSE remoteWritten
    /\ UNCHANGED <<sphase, firstData, sni, clientSocket, clientPiped,
                   remoteSocket, clientWritten, connects>>

\* README.md:91-94: the connect callback: replay data, then pipe both ways
ConnectSuccess ==
    /\ sphase = "connecting" /\ remoteSocket = "connecting"
    /\ remoteSocket' = "open"
    /\ remoteWritten' = remoteWritten \o ConnectCallbackWrites(firstData)
    /\ clientPiped' = TRUE
    /\ sphase' = "tunneling"
    /\ UNCHANGED <<firstData, sni, clientSocket, clientWritten, received,
                   connects>>

\* README.md:96-99: remoteSocket 'error' (the connect failed, or the
\* connection broke): the socket is destroyed and clientSocket.end() is called
RemoteError ==
    /\ remoteSocket \in {"connecting", "open", "ended"}
    /\ remoteSocket' = "destroyed"
    /\ clientSocket' = IF clientSocket = "open" THEN "ended" ELSE clientSocket
    /\ UNCHANGED <<sphase, firstData, sni, clientPiped, remoteWritten,
                   clientWritten, received, connects>>

\* README.md:102-104: clientSocket 'error': the handler only logs; the socket
\* is destroyed by the stream itself, and a pipe does not end its destination
\* when its source fails
ClientError ==
    /\ sphase # "crashed"
    /\ clientSocket # "destroyed"
    /\ clientSocket' = "destroyed"
    /\ UNCHANGED <<sphase, firstData, sni, clientPiped, remoteSocket,
                   remoteWritten, clientWritten, received, connects>>

\* the client half-closes: the pipe of README.md:93 ends remoteSocket
ClientEnd ==
    /\ sphase = "tunneling" /\ clientPiped
    /\ clientSocket = "open" /\ remoteSocket = "open"
    /\ remoteSocket' = "ended"
    /\ clientSocket' = "ended"
    /\ UNCHANGED <<sphase, firstData, sni, clientPiped, remoteWritten,
                   clientWritten, received, connects>>

\* the upstream sends a chunk: the pipe of README.md:93 writes it to the client
RemoteData ==
    /\ sphase = "tunneling" /\ clientPiped
    /\ remoteSocket \in {"open", "ended"} /\ clientSocket = "open"
    /\ Len(clientWritten) < MaxChunks
    /\ \E c \in Chunks : clientWritten' = Append(clientWritten, c)
    /\ UNCHANGED <<sphase, firstData, sni, clientSocket, clientPiped,
                   remoteSocket, remoteWritten, received, connects>>

\* the upstream half-closes: the pipe of README.md:93 ends clientSocket, and
\* remoteSocket (allowHalfOpen is false) ends itself
RemoteEnd ==
    /\ sphase = "tunneling" /\ clientPiped
    /\ remoteSocket = "open"
    /\ clientSocket' = IF clientSocket = "open" THEN "ended" ELSE clientSocket
    /\ remoteSocket' = "ended"
    /\ UNCHANGED <<sphase, firstData, sni, clientPiped, remoteWritten,
                   clientWritten, received, connects>>

\* ------------------------------------------------- strings (server.ts)

\* a string is a sequence of one-character strings
Digits == <<"0", "1", "2", "3", "4", "5", "6", "7", "8", "9">>

IsDigit(c) == \E d \in 1..10 : Digits[d] = c

DigitValue(c) == (CHOOSE d \in 1..10 : Digits[d] = c) - 1

\* String.prototype.startsWith
StartsWith(str, prefix) ==
    /\ Len(str) >= Len(prefix)
    /\ SubSeq(str, 1, Len(prefix)) = prefix

\* the position of the first occurrence of character c in str at or after
\* position from, or 0
RECURSIVE IndexOf(_, _, _)
IndexOf(str, c, from) ==
    IF from > Len(str) THEN 0
    ELSE IF str[from] = c THEN from
    ELSE IndexOf(str, c, from + 1)

\* str.split(c): the sequence of the parts between the occurrences of c
RECURSIVE Split(_, _)
Split(str, c) ==
    LET k == IndexOf(str, c, 1)
    IN  IF k = 0 THEN <<str>>
        ELSE <<SubSeq(str, 1, k - 1)>> \o Split(SubSeq(str, k + 1, Len(str)), c)

\* the value of undefined and null where a string is expected
Undefined == <<"undefined">>

\* const [a, b] = parts: an element the array does not have is undefined
Part(parts, k) == IF k <= Len(parts) THEN parts[k] ELSE Undefined

\* x || dflt for a string x: undefined, null and "" are falsy
OrElse(x, dflt) == IF x = Undefined \/ x = <<>> THEN dflt ELSE x

\* the number NaN
NaN == -1

\* the value of a sequence of decimal digits
RECURSIVE DecimalValue(_)
DecimalValue(ds) ==
    IF ds = <<>> THEN 0
    ELSE 10 * DecimalValue(SubSeq(ds, 1, Len(ds) - 1)) + DigitValue(ds[Len(ds)])

\* the length of the longest prefix of str made of decimal digits
RECURSIVE DigitPrefix(_)
DigitPrefix(str) ==
    IF str = <<>> \/ ~IsDigit(Head(str)) THEN 0 ELSE 1 + DigitPrefix(Tail(str))

\* parseInt(str) for a string without sign, blanks or 0x prefix: the value of
\* its leading decimal digits, NaN when it starts with none
ParseInt(str) ==
    LET n == DigitPrefix(str)
    IN  IF n = 0 THEN NaN ELSE DecimalValue(SubSeq(str, 1, n))

\* n || dflt for a number n: NaN and 0 are falsy
NumOrElse(n, dflt) == IF n = NaN \/ n = 0 THEN dflt ELSE n

HttpScheme == <<"h", "t", "t", "p", ":", "/", "/">>
HttpsScheme == <<"h", "t", "t", "p", "s", ":", "/", "/">>

\* url.parse(u) for u starting with http:// or https://: the protocol, the
\* authority up to the first "/" split into hostname and port at its ":"
\* (port null when absent), and the path from that "/" on ("/" when absent)
UrlParse(u) ==
    LET https == StartsWith(u, HttpsScheme)
        rest  == SubSeq(u, (IF https THEN 9 ELSE 8), Len(u))
        slash == IndexOf(rest, "/", 1)
        auth  == IF slash = 0 THEN rest ELSE SubSeq(rest, 1, slash - 1)
        colon == IndexOf(auth, ":", 1)
    IN  [protocol |-> IF https THEN "https:" ELSE "http:",
         hostname |-> IF colon = 0 THEN auth ELSE SubSeq(auth, 1, colon - 1),
         port     |-> IF colon = 0 \/ colon = Len(auth) THEN Undefined
                      ELSE SubSeq(auth, colon + 1, Len(auth)),
         path     |-> IF slash = 0 THEN <<"/">>
                      ELSE SubSeq(rest, slash, Len(rest))]

\* req.url.match(/^https?:\/\/([^/]+)(.*)/) (server.ts:84): the two groups,
\* or NoMatch
NoMatch == <<>>

UrlMatch(u) ==
    IF ~(StartsWith(u, HttpScheme) \/ StartsWith(u, HttpsScheme)) THEN NoMatch
    ELSE LET rest  == SubSeq(u, (IF StartsWith(u, HttpsScheme) THEN 9 ELSE 8),
                             Len(u))
             slash == IndexOf(rest, "/", 1)
         IN  IF rest = <<>> \/ slash = 1 THEN NoMatch
             ELSE IF slash = 0 THEN <<rest, <<>>>>
             ELSE <<SubSeq(rest, 1, slash - 1), SubSeq(rest, slash, Len(rest))>>

\* ------------------------------------------- the audit log (server.ts)

\* a LogEntry (server.ts:6-13), without its timestamp and user agent
LogEntry(method, hostname, path, protocol) ==
    [method |-> method, hostname |-> hostname, path |-> path,
     protocol |-> protocol]

LogInit ==
    /\ logEntries = <<>>
    /\ uniqueDomains = {}
    /\ appended = 0

\* a faulty variant of logRequest: the host name is not added to the set
LogRequestNoAdd(entry) ==
    /\ logEntries' = Append(logEntries, entry)
    /\ uniqueDomains' = uniqueDomains
    /\ appended' = appended + 1

\* logRequest (server.ts:207-219)
logRequest(entry) ==
    /\ logEntries' = Append(logEntries, entry)
    /\ uniqueDomains' = uniqueDomains \cup {entry.hostname}
    /\ appended' = appended + 1

\* ------------------------------------------ statistics (server.ts)

\* most entries of the log in the specification of the aggregator
MaxLog == 3
\* the host names of the statistics' inputs are h1 .. h<NumHosts>
NumHosts == 12
\* the statistics' inputs start from a log of this many distinct host names
BaseHosts == 9
\* and append at most this many entries to it
MaxAppend == 3
\* server.ts:286: slice(0, 10)
TopN == 10

\* server.ts:274-278: domainCounts after the entries of log were counted: the
\* pairs of a Map, in the order in which their keys were first set
RECURSIVE DomainCounts(_)
DomainCounts(log) ==
    IF log = <<>> THEN <<>>
    ELSE LET before == DomainCounts(SubSeq(log, 1, Len(log) - 1))
             name   == log[Len(log)].hostname
         IN  IF \E k \in 1..Len(before) : before[k].domain = name
             THEN [k \in 1..Len(before) |->
                      IF before[k].domain = name
                      THEN [before[k] EXCEPT !.count = @ + 1]
                      ELSE before[k]]
             ELSE Append(before, [domain |-> name, count |-> 1])

\* a faulty variant of the comparison of server.ts:285: a.count - b.count
ComesBeforeAscending(a, b) == a.count < b.count

\* server.ts:285: (a, b) => b.count - a.count is negative: a sorts before b
ComesBefore(a, b) == b.count < a.count

\* Array.prototype.sort with that comparison: a stable sort, here by
\* insertion: an element goes behind every element that does not sort after it
InsertSorted(sorted, x) ==
    LET later == {k \in 1..Len(sorted) : ComesBefore(x, sorted[k])}
        at    == IF later = {} THEN Len(sorted) + 1
                 ELSE CHOOSE k \in later : \A j \in later : k <= j
    IN  SubSeq(sorted, 1, at - 1) \o <<x>> \o SubSeq(sorted, at, Len(sorted))

RECURSIVE SortByCount(_)
SortByCount(pairs) ==
    IF pairs = <<>> THEN <<>>
    ELSE InsertSorted(SortByCount(SubSeq(pairs, 1, Len(pairs) - 1)),
                      pairs[Len(pairs)])

\* getStats (server.ts:264-294)
getStats(log, domains) ==
    [totalRequests |-> Len(log),
     uniqueDomains |-> Cardinality(domains),
     topDomains    |-> LET sorted == SortByCount(DomainCounts(log))
                       IN  SubSeq(sorted, 1, Min(TopN, Len(sorted))),
     protocolStats |->
        [http  |-> Cardinality({k \in 1..Len(log) : log[k].protocol = "HTTP"}),
         https |-> Cardinality({k \in 1..Len(log) : log[k].protocol # "HTTP"})]]

NoStats == [of |-> <<>>, value |-> getStats(<<>>, {})]

NoExport == [stats |-> getStats(<<>>, {}), logs |-> <<>>]

StatsInit ==
    /\ lastStats = NoStats
    /\ exportFile = NoExport

\* entries the handlers log: a plain request to a.io and a tunnel to b.io
AggEntries ==
    {LogEntry("GET", <<"a", ".", "i", "o">>, <<"/">>, "HTTP"),
     LogEntry("CONNECT", <<"b", ".", "i", "o">>, <<"/">>, "HTTPS")}

\* a handler calls logRequest
LogRequestCall ==
    /\ Len(logEntries) < MaxLog
    /\ \E entry \in AggEntries : logRequest(entry)
    /\ UNCHANGED statsVars

\* clearLogs (server.ts:321-325)
clearLogs ==
    /\ logEntries' = <<>>
    /\ uniqueDomains' = {}
    /\ appended' = 0
    /\ UNCHANGED statsVars

\* getStats is called (printStats, server.ts:296-297)
GetStatsCall ==
    /\ lastStats' = [of |-> logEntries,
                     value |-> getStats(logEntries, uniqueDomains)]
    /\ UNCHANGED <<logVars, exportFile>>

\* a faulty variant of exportLogs: the log is emptied once it is exported
ExportLogsAndClear ==
    /\ exportFile' = [stats |-> getStats(logEntries, uniqueDomains),
                      logs |-> logEntries]
    /\ logEntries' = <<>>
    /\ uniqueDomains' = {}
    /\ appended' = 0
    /\ UNCHANGED lastStats

\* exportLogs (server.ts:310-319), without the export time
exportLogs ==
    /\ exportFile' = [stats |-> getStats(logEntries, uniqueDomains),
                      logs |-> logEntries]
    /\ UNCHANGED <<logVars, lastStats>>

\* the host name h<k>
StatsHost(k) ==
    <<"h">> \o (IF k >= 10 THEN <<Digits[(k \div 10) + 1]>> ELSE <<>>)
            \o <<Digits[(k % 10) + 1]>>

\* a log of one plain request to each of h1 .. h<n>
BaseLog(n) == [k \in 1..n |-> LogEntry("GET", StatsHost(k), <<"/">>, "HTTP")]

\* the statistics' inputs start from the empty log or from BaseLog(BaseHosts)
StatsLogInit ==
    /\ \E n \in {0, BaseHosts} :
          /\ logEntries = BaseLog(n)
          /\ uniqueDomains = {StatsHost(k) : k \in 1..n}
          /\ appended = n

\* a handler logs a plain request to one of h1 .. h<NumHosts>
StatsLogRequest ==
    /\ \/ Len(logEntries) < MaxAppend
       \/ /\ BaseHosts <= Len(logEntries)
          /\ Len(logEntries) < BaseHosts + MaxAppend
    /\ \E k \in 1..NumHosts :
          logRequest(LogEntry("GET", StatsHost(k), <<"/">>, "HTTP"))
    /\ UNCHANGED statsVars

\* ------------------------------- plain request forwarding (server.ts)

\* most requests handled one after the other
MaxRequests == 2

\* request lines' targets: absolute http and https URIs with and without a
\* port, a relative target, an absolute URI without host name, and an
\* absolute URI in capitals
RequestUrls ==
    {<<"h", "t", "t", "p", ":", "/", "/", "a", ".", "i", "o", "/", "x">>,
     <<"h", "t", "t", "p", ":", "/", "/", "a", ".", "i", "o", ":", "8", "1", "/">>,
     <<"h", "t", "t", "p", "s", ":", "/", "/", "b", ".", "i", "o", "/">>,
     <<"h", "t", "t", "p", "s", ":", "/", "/", "b", ".", "i", "o", ":", "8", "4", "4", "3", "/", "y">>,
     <<"/", "p">>,
     <<"h", "t", "t", "p", ":", "/", "/", "/", "x">>,
     <<"H", "T", "T", "P", ":", "/", "/", "a", ".", "i", "o", "/">>}

\* Host headers: none, a host, a host with a port, a host with a port that is
\* no number, a port without host, and the host name "unknown"
HostHeaders ==
    {Undefined,
     <<"a", ".", "i", "o">>,
     <<"a", ".", "i", "o", ":", "8", "0", "8", "0">>,
     <<"a", ".", "i", "o", ":", "x">>,
     <<":", "8", "1">>,
     <<"u", "n", "k", "n", "o", "w", "n">>}

UnknownHost == <<"u", "n", "k", "n", "o", "w", "n">>

\* server.ts:62-100: the destination of a plain request
Resolve(url, host) ==
    IF StartsWith(url, HttpScheme) \/ StartsWith(url, HttpsScheme)
    THEN LET reqUrl == UrlParse(url)
         IN  [hostname |-> OrElse(reqUrl.hostname, <<>>),
              path     |-> OrElse(reqUrl.path, <<"/">>),
              port     |-> NumOrElse(ParseInt(OrElse(reqUrl.port, <<"8", "0">>)),
                                     IF reqUrl.protocol = "https:" THEN 443
                                     ELSE 80)]
    ELSE IF host # Undefined /\ host # <<>>
    THEN LET parts == Split(host, ":")
         IN  [hostname |-> OrElse(Part(parts, 1), <<>>),
              path     |-> OrElse(url, <<"/">>),
              port     |-> NumOrElse(ParseInt(OrElse(Part(parts, 2),
                                                     <<"8", "0">>)), 80)]
    ELSE LET urlMatch == UrlMatch(url)
         IN  IF urlMatch # NoMatch /\ urlMatch[1] # <<>>
             THEN LET parts == Split(urlMatch[1], ":")
                  IN  [hostname |-> OrElse(Part(parts, 1), <<>>),
                       path     |-> OrElse(urlMatch[2], <<"/">>),
                       port     |-> NumOrElse(ParseInt(OrElse(Part(parts, 2),
                                                     <<"8", "0">>)), 80)]
             ELSE [hostname |-> <<>>, path |-> OrElse(url, <<"/">>),
                   port |-> 80]

\* a faulty variant of the validation of server.ts:108: nothing is rejected
IsUnresolvedNever(hostname) == FALSE

\* server.ts:108: !hostname || hostname === "unknown" || hostname === ""
IsUnresolved(hostname) == hostname = <<>> \/ hostname = UnknownHost

NoRequest == [hostname |-> <<>>, path |-> <<>>, port |-> 0, method |-> "none"]

NewResponse == [heads |-> <<>>, calls |-> <<>>, ended |-> FALSE]

\* res.writeHead(status): it throws ERR_HTTP_HEADERS_SENT when a header block
\* was already sent, and sends none then
WriteHead(r, status) ==
    [r EXCEPT !.calls = Append(@, [status |-> status,
                                   headersSent |-> r.heads # <<>>]),
              !.heads = IF r.heads = <<>> THEN <<status>> ELSE @]

NoIncoming == [url |-> <<>>, host |-> Undefined, method |-> "none"]

HttpInit ==
    /\ req = NoIncoming
    /\ hphase = "idle"
    /\ proxyReq = NoRequest
    /\ res = NewResponse
    /\ requests = 0

\* handleHttpRequest (server.ts:50-158), up to the http.request it issues
HandleHttpRequest ==
    /\ hphase = "idle"
    /\ requests < MaxRequests
    /\ requests' = requests + 1
    /\ \E url \in RequestUrls, host \in HostHeaders, method \in {"GET", "POST"} :
          LET dest == Resolve(url, host)
          IN  /\ req' = [url |-> url, host |-> host, method |-> method]
              /\ IF IsUnresolved(dest.hostname)
                 THEN /\ res' = [WriteHead(res, 400) EXCEPT !.ended = TRUE]
                      /\ hphase' = "rejected"
                      /\ UNCHANGED <<proxyReq, logVars>>
                 ELSE /\ logRequest(LogEntry(method, dest.hostname, dest.path,
                                             "HTTP"))
                      /\ proxyReq' = [hostname |-> dest.hostname,
                                      path |-> dest.path, port |-> dest.port,
                                      method |-> method]
                      /\ hphase' = "forwarding"
                      /\ UNCHANGED res

\* server.ts:143-148: the upstream answers: its status and headers are
\* written to the client and its body is piped
ProxyResponse ==
    /\ hphase = "forwarding"
    /\ \E status \in {200, 404} : res' = WriteHead(res, status)
    /\ hphase' = "responding"
    /\ UNCHANGED <<req, proxyReq, requests, logVars>>

\* server.ts:147: the upstream's body ends: the pipe ends the response
ProxyResponseEnd ==
    /\ hphase = "responding"
    /\ res' = [res EXCEPT !.ended = TRUE]
    /\ hphase' = "done"
    /\ UNCHANGED <<req, proxyReq, requests, logVars>>

\* server.ts:150-154: proxyReq 'error': before a response (the connect
\* failed), or after its headers when the upstream's socket fails while the
\* request body is still piped.  writeHead after the headers were sent throws
\* out of the listener.
ProxyReqError ==
    /\ hphase \in {"forwarding", "responding"}
    /\ IF res.heads # <<>>
       THEN /\ res' = WriteHead(res, 500)
            /\ hphase' = "thrown"
       ELSE /\ res' = [WriteHead(res, 500) EXCEPT !.ended = TRUE]
            /\ hphase' = "failed"
    /\ UNCHANGED <<req, proxyReq, requests, logVars>>

\* the next request arrives, with a ServerResponse of its own
NextRequest ==
    /\ hphase \in {"rejected", "done", "failed"}
    /\ requests < MaxRequests
    /\ hphase' = "idle"
    /\ req' = NoIncoming
    /\ proxyReq' = NoRequest
    /\ res' = NewResponse
    /\ UNCHANGED <<requests, logVars>>

\* ------------------------------------- CONNECT tunnelling (server.ts)

\* server.ts:180
ConnectionEstablished == "HTTP/1.1 200 Connection Established\r\n\r\n"

\* CONNECT targets: host and port, host only, a port that is no number, a
\* port without host, a port other than 443, a port of a digit and a letter,
\* and an IPv6 literal with a port
ConnectUrls ==
    {<<"b", ".", "i", "o", ":", "4", "4", "3">>,
     <<"b", ".", "i", "o">>,
     <<"b", ".", "i", "o", ":", "x">>,
     <<":", "8", "4", "4", "3">>,
     <<"b", ".", "i", "o", ":", "8", "1">>,
     <<"b", ".", "i", "o", ":", "8", "x">>,
     <<"[", ":", ":", "1", "]", ":", "8", "1">>}

\* the bytes that arrived behind the CONNECT request's header
Heads == {<<>>, <<22, 3>>}

\* parseConnectUrl (server.ts:199-205)
parseConnectUrl(connectUrl) ==
    LET parts == Split(connectUrl, ":")
    IN  [hostname |-> OrElse(Part(parts, 1), <<>>),
         port     |-> OrElse(Part(parts, 2), <<"4", "4", "3">>)]

\* a write to one of the sockets; ok: the socket was writable, so the bytes
\* go out.  A write to a socket that was ended or destroyed reaches nobody.
ToClient(bytes, ok) == [to |-> "client", bytes |-> bytes, ok |-> ok]
ToServer(bytes, ok) == [to |-> "server", bytes |-> bytes, ok |-> ok]
PipesSetUp == [to |-> "pipe", bytes |-> <<>>, ok |-> TRUE]

\* what went out to socket `to` among the events of io, in order
RECURSIVE WritesTo(_, _)
WritesTo(io, to) ==
    IF io = <<>> THEN <<>>
    ELSE (IF Head(io).to = to /\ Head(io).ok THEN <<Head(io).bytes>> ELSE <<>>)
         \o WritesTo(Tail(io), to)

\* a faulty variant of the connect callback: the head goes upstream before the 200
\* line is written
ConnectCallbackHeadFirst(clientOpen, serverOpen, head, pending) ==
    <<ToServer(head, serverOpen), ToClient(ConnectionEstablished, clientOpen),
      PipesSetUp>>
    \o (IF serverOpen
        THEN [k \in 1..Len(pending) |-> ToServer(pending[k], TRUE)]
        ELSE <<>>)

\* server.ts:178-186, the connect callback: the 200 line to the client, the
\* head to the upstream, then the two pipes; the chunks the client socket held
\* back flow into the pipe in their order while the upstream is writable.
ConnectCallback(clientOpen, serverOpen, head, pending) ==
    <<ToClient(ConnectionEstablished, clientOpen), ToServer(head, serverOpen),
      PipesSetUp>>
    \o (IF serverOpen
        THEN [k \in 1..Len(pending) |-> ToServer(pending[k], TRUE)]
        ELSE <<>>)

NoConnect == [url |-> <<>>, head |-> <<>>]

ConnectInit ==
    /\ cphase = "idle"
    /\ connectReq = NoConnect
    /\ target = [port |-> 0, host |-> <<>>]
    /\ tunnelClient = "open"
    /\ serverSocket = "none"
    /\ tunnelPiped = FALSE
    /\ tunnelIo = <<>>
    /\ clientPending = <<>>
    /\ clientSent = <<>>
    /\ serverSent = <<>>
    /\ tunnelConnects = 0

\* handleHttpsConnect (server.ts:160-197), up to the net.connect it issues
handleHttpsConnect ==
    /\ cphase = "idle"
    /\ \E url \in ConnectUrls, head \in Heads :
          LET parsedUrl == parseConnectUrl(url)
          IN  /\ connectReq' = [url |-> url, head |-> head]
              /\ logRequest(LogEntry("CONNECT", parsedUrl.hostname, <<"/">>,
                                     "HTTPS"))
              /\ target' = [port |-> NumOrElse(ParseInt(parsedUrl.port), 443),
                            host |-> parsedUrl.hostname]
    /\ serverSocket' = "connecting"
    /\ tunnelConnects' = tunnelConnects + 1
    /\ cphase' = "connecting"
    /\ UNCHANGED <<tunnelClient, tunnelPiped, tunnelIo, clientPending,
                   clientSent, serverSent>>

\* the client sends a chunk behind the head.  The http server hands the socket
\* over paused, so the chunk waits until the socket is piped; once piped it is
\* written to the upstream while that is writable.
TunnelClientData ==
    /\ cphase \in {"connecting", "established"}
    /\ tunnelClient = "open"
    /\ Len(clientSent) < MaxChunks
    /\ \E c \in Chunks :
          /\ clientSent' = Append(clientSent, c)
          /\ IF ~tunnelPiped
             THEN /\ clientPending' = Append(clientPending, c)
                  /\ UNCHANGED tunnelIo
             ELSE /\ tunnelIo' = IF serverSocket = "open"
                                 THEN Append(tunnelIo, ToServer(c, TRUE))
                                 ELSE tunnelIo
                  /\ UNCHANGED clientPending
    /\ UNCHANGED <<cphase, connectReq, target, tunnelClient, serverSocket,
                   tunnelPiped, serverSent, tunnelConnects, logVars>>

\* server.ts:178-186: the upstream connect succeeded
TunnelConnected ==
    /\ cphase = "connecting"
    /\ serverSocket \in {"connecting", "connecting-ended"}
    /\ LET clientOpen == tunnelClient = "open"
           serverOpen == serverSocket = "connecting"
       IN  /\ tunnelIo' = tunnelIo \o ConnectCallback(clientOpen, serverOpen,
                                                      connectReq.head,
                                                      clientPending)
           /\ serverSocket' = IF serverOpen THEN "open" ELSE "ended"
    /\ clientPending' = <<>>
    /\ tunnelPiped' = TRUE
    /\ cphase' = "established"
    /\ UNCHANGED <<connectReq, target, tunnelClient, clientSent, serverSent,
                   tunnelConnects, logVars>>

\* server.ts:188-191: serverSocket 'error' (the connect failed, or the
\* connection broke): the handler logs and calls clientSocket.end()
TunnelServerError ==
    /\ serverSocket \in {"connecting", "connecting-ended", "open", "ended"}
    /\ serverSocket' = "destroyed"
    /\ tunnelClient' = IF tunnelClient = "open" THEN "ended" ELSE tunnelClient
    /\ cphase' = IF cphase = "connecting" THEN "failed" ELSE cphase
    /\ UNCHANGED <<connectReq, target, tunnelPiped, tunnelIo, clientPending,
                   clientSent, serverSent, tunnelConnects, logVars>>

\* server.ts:193-196: clientSocket 'error': the socket is destroyed, the
\* handler logs and calls serverSocket.end()
TunnelClientError ==
    /\ cphase \in {"connecting", "established"}
    /\ tunnelClient \in {"open", "ended"}
    /\ tunnelClient' = "destroyed"
    /\ serverSocket' = CASE serverSocket = "connecting" -> "connecting-ended"
                         [] serverSocket = "open" -> "ended"
                         [] OTHER -> serverSocket
    /\ UNCHANGED <<cphase, connectReq, target, tunnelPiped, tunnelIo,
                   clientPending, clientSent, serverSent, tunnelConnects,
                   logVars>>

\* the client half-closes: the pipe of server.ts:185 ends serverSocket
TunnelClientEnd ==
    /\ cphase = "established" /\ tunnelPiped
    /\ tunnelClient = "open" /\ serverSocket = "open"
    /\ serverSocket' = "ended"
    /\ tunnelClient' = "ended"
    /\ UNCHANGED <<cphase, connectReq, target, tunnelPiped, tunnelIo,
                   clientPending, clientSent, serverSent, tunnelConnects,
                   logVars>>

\* the upstream half-closes: the pipe of server.ts:184 ends clientSocket
TunnelServerEnd ==
    /\ cphase = "established" /\ tunnelPiped
    /\ serverSocket = "open" /\ tunnelClient = "open"
    /\ tunnelClient' = "ended"
    /\ serverSocket' = "ended"
    /\ UNCHANGED <<cphase, connectReq, target, tunnelPiped, tunnelIo,
                   clientPending, clientSent, serverSent, tunnelConnects,
                   logVars>>

\* the upstream sends a chunk: the pipe of server.ts:184 writes it to the
\* client while that is writable
TunnelServerData ==
    /\ cphase = "established" /\ tunnelPiped
    /\ serverSocket \in {"open", "ended"}
    /\ Len(serverSent) < MaxChunks
    /\ \E c \in Chunks :
          /\ serverSent' = Append(serverSent, c)
          /\ tunnelIo' = IF tunnelClient = "open"
                         THEN Append(tunnelIo, ToClient(c, TRUE)) ELSE tunnelIo
    /\ UNCHANGED <<cphase, connectReq, target, tunnelClient, serverSocket,
                   tunnelPiped, clientPending, clientSent, tunnelConnects,
                   logVars>>

\* ---------------------------------------------------------- specifications

\* extractSNI on generated, truncated and corrupted buffers
InitParse == ParseInit /\ SniInit /\ LogInit /\ StatsInit /\ HttpInit
    /\ ConnectInit

NextParse ==
    \/ Truncate /\ UNCHANGED <<sniVars, logVars, statsVars, httpVars, connectVars>>
    \/ Corrupt /\ UNCHANGED <<sniVars, logVars, statsVars, httpVars, connectVars>>
    \/ Parse /\ UNCHANGED <<sniVars, logVars, statsVars, httpVars, connectVars>>

SpecParse == InitParse /\ [][NextParse]_vars

\* one connection of the SNI blocking proxy
InitSni == ParseIdle /\ SniInit /\ LogInit /\ StatsInit /\ HttpInit
    /\ ConnectInit

NextSni ==
    \/ ClientFirstData /\ UNCHANGED <<parseVars, logVars, statsVars, httpVars, connectVars>>
    \/ ClientData /\ UNCHANGED <<parseVars, logVars, statsVars, httpVars, connectVars>>
    \/ ConnectSuccess /\ UNCHANGED <<parseVars, logVars, statsVars, httpVars, connectVars>>
    \/ RemoteError /\ UNCHANGED <<parseVars, logVars, statsVars, httpVars, connectVars>>
    \/ ClientError /\ UNCHANGED <<parseVars, logVars, statsVars, httpVars, connectVars>>
    \/ ClientEnd /\ UNCHANGED <<parseVars, logVars, statsVars, httpVars, connectVars>>
    \/ RemoteData /\ UNCHANGED <<parseVars, logVars, statsVars, httpVars, connectVars>>
    \/ RemoteEnd /\ UNCHANGED <<parseVars, logVars, statsVars, httpVars, connectVars>>

SpecSni == InitSni /\ [][NextSni]_vars

\* a pending net.connect (README.md:91) does not stay pending: the operating
\* system reports the connection or its failure, and the event loop then runs
\* the connect callback or the 'error' listener
SniConnectEnds ==
    /\ remoteSocket = "connecting"
    /\ (ConnectSuccess \/ RemoteError)
    /\ UNCHANGED <<parseVars, logVars, statsVars, httpVars, connectVars>>

\* one connection of the SNI blocking proxy, every connect attempt ending;
\* what the client and the upstream do (send, close, fail) is up to them
SpecSniLive == InitSni /\ [][NextSni]_vars /\ WF_vars(SniConnectEnds)

\* plain requests through the forward proxy, one after the other
InitHttp == ParseIdle /\ SniInit /\ LogInit /\ StatsInit /\ HttpInit
    /\ ConnectInit

NextHttp ==
    \/ HandleHttpRequest /\ UNCHANGED <<parseVars, sniVars, statsVars, connectVars>>
    \/ ProxyResponse /\ UNCHANGED <<parseVars, sniVars, statsVars, connectVars>>
    \/ ProxyResponseEnd /\ UNCHANGED <<parseVars, sniVars, statsVars, connectVars>>
    \/ ProxyReqError /\ UNCHANGED <<parseVars, sniVars, statsVars, connectVars>>
    \/ NextRequest /\ UNCHANGED <<parseVars, sniVars, statsVars, connectVars>>

SpecHttp == InitHttp /\ [][NextHttp]_vars

\* one CONNECT request through the forward proxy
InitConnect ==
    ParseIdle /\ SniInit /\ LogInit /\ StatsInit /\ HttpInit
    /\ ConnectInit

NextConnect ==
    \/ handleHttpsConnect /\ UNCHANGED <<parseVars, sniVars, statsVars, httpVars>>
    \/ TunnelClientData /\ UNCHANGED <<parseVars, sniVars, statsVars, httpVars>>
    \/ TunnelConnected /\ UNCHANGED <<parseVars, sniVars, statsVars, httpVars>>
    \/ TunnelServerError /\ UNCHANGED <<parseVars, sniVars, statsVars, httpVars>>
    \/ TunnelClientError /\ UNCHANGED <<parseVars, sniVars, statsVars, httpVars>>
    \/ TunnelClientEnd /\ UNCHANGED <<parseVars, sniVars, statsVars, httpVars>>
    \/ TunnelServerEnd /\ UNCHANGED <<parseVars, sniVars, statsVars, httpVars>>
    \/ TunnelServerData /\ UNCHANGED <<parseVars, sniVars, statsVars, httpVars>>

SpecConnect == InitConnect /\ [][NextConnect]_vars

\* a pending net.connect (server.ts:178) does not stay pending: the connect
\* callback or the 'error' listener runs
TunnelConnectEnds ==
    /\ cphase = "connecting"
    /\ (TunnelConnected \/ TunnelServerError)
    /\ UNCHANGED <<parseVars, sniVars, statsVars, httpVars>>

\* one CONNECT request, every connect attempt ending; what the client and the
\* upstream do is up to them
SpecConnectLive ==
    InitConnect /\ [][NextConnect]_vars /\ WF_vars(TunnelConnectEnds)

\* the aggregator: logRequest, clearLogs, getStats and exportLogs in any order
InitAgg == ParseIdle /\ SniInit /\ LogInit /\ StatsInit /\ HttpInit
    /\ ConnectInit

NextAgg ==
    \/ LogRequestCall /\ UNCHANGED <<parseVars, sniVars, httpVars, connectVars>>
    \/ clearLogs /\ UNCHANGED <<parseVars, sniVars, httpVars, connectVars>>
    \/ GetStatsCall /\ UNCHANGED <<parseVars, sniVars, httpVars, connectVars>>
    \/ exportLogs /\ UNCHANGED <<parseVars, sniVars, httpVars, connectVars>>

SpecAgg == InitAgg /\ [][NextAgg]_vars

\* getStats on logs of many host names
InitStats == ParseIdle /\ SniInit /\ StatsLogInit /\ StatsInit /\ HttpInit
    /\ ConnectInit

NextStats ==
    \/ StatsLogRequest /\ UNCHANGED <<parseVars, sniVars, httpVars, connectVars>>
    \/ GetStatsCall /\ UNCHANGED <<parseVars, sniVars, httpVars, connectVars>>

SpecStats == InitStats /\ [][NextStats]_vars

\* --------------------------------------------- claims: SNI blocking proxy

\* whether sub is a subsequence of seq, order kept
RECURSIVE IsSubseqOf(_, _)
IsSubseqOf(sub, seq) ==
    IF sub = <<>> THEN TRUE
    ELSE IF seq = <<>> THEN FALSE
    ELSE IF Head(sub) = Head(seq) THEN IsSubseqOf(Tail(sub), Tail(seq))
    ELSE IsSubseqOf(sub, Tail(seq))

\* C1: when the first chunk parses to a name of the block list, the client
\* connection is closed, no upstream connection is opened and, in every later
\* state of the connection, nothing has been written to an upstream socket.
C1_BlockedNeverReachesUpstream ==
    (sni.kind = "string" /\ sni.sni \in BLOCKED_DOMAINS) =>
        /\ clientSocket \in {"ended", "destroyed"}
        /\ remoteSocket = "none"
        /\ connects = 0
        /\ remoteWritten = <<>>

C1_Witness ==
    /\ sphase = "blocked"
    /\ sni.sni = ExampleCom
    /\ clientSocket = "ended"
    /\ Len(received) >= 2

\* C2: once anything has been written to the upstream, the first thing
\* written is the first chunk received, unmodified, and what follows it are
\* chunks received after it, in the order received.
C2_FirstChunkReplayedFirst ==
    remoteWritten # <<>> =>
        /\ remoteWritten[1] = received[1]
        /\ IsSubseqOf(Tail(remoteWritten), Tail(received))

C2_Witness ==
    /\ sphase = "tunneling"
    /\ firstData = ClientHello(0, 1, 1, <<>>, AIo)
    /\ sni.kind = "string" /\ sni.sni \notin BLOCKED_DOMAINS
    /\ Len(remoteWritten) >= 2
    /\ remoteWritten[1] = firstData

\* ---------------------------------------------------- claims: audit log

\* the host names occurring in a log
HostsOf(log) == {log[k].hostname : k \in 1..Len(log)}

\* how many entries of a log name host h
CountOf(log, h) == Cardinality({k \in 1..Len(log) : log[k].hostname = h})

\* the position of the first entry of a log naming host h
FirstSeen(log, h) ==
    CHOOSE k \in 1..Len(log) :
        /\ log[k].hostname = h
        /\ \A j \in 1..(k - 1) : log[j].hostname # h

RECURSIVE SumCounts(_)
SumCounts(pairs) ==
    IF pairs = <<>> THEN 0 ELSE Head(pairs).count + SumCounts(Tail(pairs))

\* C8: in every state of the aggregator, totalRequests is the number of
\* entries appended since the last clear, the set of host names is exactly
\* the set of host names of the log (so uniqueDomains is their number), the
\* per-host counts sum to totalRequests, and after a clear both are empty.
C8_LogAndDomainsAgree ==
    LET st == getStats(logEntries, uniqueDomains)
    IN  /\ st.totalRequests = appended
        /\ uniqueDomains = HostsOf(logEntries)
        /\ st.uniqueDomains = Cardinality(HostsOf(logEntries))
        /\ SumCounts(DomainCounts(logEntries)) = st.totalRequests
        /\ (appended = 0 => logEntries = <<>> /\ uniqueDomains = {})

C8_Witness ==
    /\ Len(logEntries) = 3 /\ Cardinality(uniqueDomains) = 2
    /\ lastStats.of = logEntries
    /\ lastStats.value.totalRequests = 3 /\ lastStats.value.uniqueDomains = 2
    /\ exportFile.logs # <<>> /\ exportFile.logs[1] # logEntries[1]

\* C9: topDomains lists at most TopN host names of the log, each once and
\* with its exact count, in descending order of count, host names of equal
\* count in the order of their first entries, and no host name left out has
\* a higher count than one listed.
C9_TopDomainsSorted ==
    LET log == lastStats.of
        top == lastStats.value.topDomains
    IN  /\ Len(top) = Min(TopN, Cardinality(HostsOf(log)))
        /\ \A i \in 1..Len(top) :
              /\ top[i].domain \in HostsOf(log)
              /\ top[i].count = CountOf(log, top[i].domain)
        /\ \A i, j \in 1..Len(top) :
              i < j =>
                 /\ top[i].domain # top[j].domain
                 /\ \/ top[i].count > top[j].count
                    \/ /\ top[i].count = top[j].count
                       /\ FirstSeen(log, top[i].domain)
                             < FirstSeen(log, top[j].domain)
        /\ \A h \in HostsOf(log) :
              (\A i \in 1..Len(top) : top[i].domain # h) =>
                 \A i \in 1..Len(top) : CountOf(log, h) <= top[i].count

C9_Witness ==
    LET top == lastStats.value.topDomains
    IN  /\ Len(top) = TopN
        /\ Cardinality(HostsOf(lastStats.of)) > TopN
        /\ top[1].count = 2 /\ top[1].domain = StatsHost(11)
        /\ top[2].count = 1 /\ top[TopN].count = 1

\* ----------------------------------------------- claims: CONNECT tunnel

IsPrefixOf(pre, seq) ==
    Len(pre) <= Len(seq) /\ SubSeq(seq, 1, Len(pre)) = pre

\* C6: nothing is written to the client before the upstream connect
\* succeeds; when it succeeds the 200 line is written to the client first,
\* then the head to the upstream, then the pipes are set up; from then on what
\* goes out to either side is what the other side sent, intact and in order,
\* and all of it while both sockets are open.
C6_TunnelOrder ==
    /\ cphase \in {"idle", "connecting", "failed"} => tunnelIo = <<>>
    /\ cphase = "established" =>
          LET toServer == WritesTo(tunnelIo, "server")
              toClient == WritesTo(tunnelIo, "client")
          IN  /\ Len(tunnelIo) >= 3
              /\ tunnelIo[1].to = "client"
              /\ tunnelIo[1].bytes = ConnectionEstablished
              /\ tunnelIo[2].to = "server"
              /\ tunnelIo[2].bytes = connectReq.head
              /\ tunnelIo[3] = PipesSetUp
              /\ IF tunnelIo[1].ok
                 THEN /\ toClient[1] = ConnectionEstablished
                      /\ IsPrefixOf(Tail(toClient), serverSent)
                 ELSE toClient = <<>>
              /\ IF tunnelIo[2].ok
                 THEN /\ toServer[1] = connectReq.head
                      /\ IsPrefixOf(Tail(toServer), clientSent)
                 ELSE toServer = <<>>
              /\ (tunnelClient = "open" /\ serverSocket = "open") =>
                    /\ Tail(toServer) = clientSent
                    /\ Tail(toClient) = serverSent

C6_Witness ==
    /\ cphase = "established"
    /\ tunnelClient = "open" /\ serverSocket = "open"
    /\ connectReq.head = <<22, 3>>
    /\ Len(tunnelIo) >= 6
    /\ tunnelIo[4].to = "server"
    /\ Len(clientSent) = 2 /\ Len(serverSent) >= 1

\* ------------------------------------------------ claims: plain requests

\* a request from which no host name can be determined: no absolute http or
\* https URI in the request line, no Host header, no match of the fallback
\* pattern
Undeterminable(r) ==
    /\ ~StartsWith(r.url, HttpScheme) /\ ~StartsWith(r.url, HttpsScheme)
    /\ r.host = Undefined
    /\ UrlMatch(r.url) = NoMatch

\* C7: handling a plain request from which no host name can be determined
\* answers 400 and ends the response, appends no LogEntry, adds nothing to
\* the set of host names and issues no upstream request.
C7_UndeterminableIsRejected ==
    [][(hphase = "idle" /\ hphase' # "idle" /\ Undeterminable(req')) =>
          /\ hphase' = "rejected"
          /\ res'.heads = <<400>> /\ res'.ended
          /\ logEntries' = logEntries
          /\ uniqueDomains' = uniqueDomains
          /\ proxyReq' = NoRequest]_vars

C7_Witness ==
    /\ hphase = "rejected" /\ Undeterminable(req)
    /\ req.method = "POST"
    /\ res.heads = <<400>>
    /\ requests = 2 /\ Len(logEntries) = 1

\* C10 (as claimed): res.writeHead is never called for a request whose
\* header block was already sent, so an upstream error after the upstream's
\* status and headers were relayed produces no 500.
C10_NoWriteHeadAfterHeadersSent ==
    \A k \in 1..Len(res.calls) : ~res.calls[k].headersSent

\* ------------------------------------------------------ claims: extractSNI

\* C3 (as claimed): extractSNI never throws and, apart from probing the
\* record-type byte, never asks the buffer for an index outside it, whatever
\* the buffer: truncated at any position, or with a length field pointing
\* past its end.
C3_NeverThrowsNorOverreads ==
    pstage = "done" =>
        /\ parsed.kind # "throw"
        /\ (parsed.reads \ {0}) \subseteq 0..(Len(pbuf) - 1)

\* C4: a well-formed ClientHello carrying a server-name extension for host h
\* parses to exactly h, whatever the session-id, cipher-suite and compression
\* lengths and whatever other extensions come first.
C4_WellFormedYieldsHost ==
    (pstage = "done" /\ hello.intact) =>
        /\ parsed.kind = "string"
        /\ parsed.sni = hello.host

\* C5: a buffer whose first byte is not 0x16, the empty buffer included,
\* parses to null, without an exception and with no byte inspected beyond
\* the record type.
C5_NotHandshakeIsNull ==
    (pstage = "done" /\ (Len(pbuf) = 0 \/ pbuf[1] # 22)) =>
        /\ parsed.kind = "null"
        /\ parsed.reads = {0}

C5_Witness ==
    /\ pstage = "done" /\ Len(pbuf) > 43 /\ pbuf[1] # 22
    /\ parsed.kind = "null"

\* ------------------------------------- claims: CONNECT failure and log

\* C11 (as claimed): when the upstream connect of a CONNECT request fails
\* before anything was written to the client, exactly one response reaches the
\* client (the 500), the client connection is then terminated, and the 200
\* line is not among what was written.
C11_ConnectFailureAnswers500 ==
    cphase = "failed" =>
        /\ Len(WritesTo(tunnelIo, "client")) = 1
        /\ tunnelClient # "open"
        /\ \A k \in 1..Len(tunnelIo) :
              tunnelIo[k].to = "client" =>
                 tunnelIo[k].bytes # ConnectionEstablished

\* C12 (as claimed): a CONNECT LogEntry is in the audit log only if the
\* request's upstream connection was established; a CONNECT whose upstream
\* connect is pending or failed leaves the log and the set of host names
\* as they were.
C12_ConnectLoggedAtEstablishment ==
    /\ (\E k \in 1..Len(logEntries) : logEntries[k].method = "CONNECT") =>
          cphase = "established"
    /\ cphase \in {"idle", "connecting", "failed"} =>
          logEntries = <<>> /\ uniqueDomains = {}

\* ------------------------------------ claims: plain requests and the log

\* what handling a plain request does to the log, `resolved` saying whether
\* the request counts as one whose host name was resolved: such a request
\* appends one entry with its method, host name and path and protocol HTTP in
\* the handler that issues the upstream request; any other request appends
\* nothing; and no later step of the request (the upstream's response, its
\* end, its failure, the next request's arrival) touches the log.
LoggedOnce(resolved) ==
    LET dest == Resolve(req'.url, req'.host)
    IN  /\ (hphase = "idle" /\ hphase' # "idle") =>
              IF resolved
              THEN /\ logEntries' =
                         Append(logEntries,
                                [method |-> req'.method,
                                 hostname |-> dest.hostname,
                                 path |-> dest.path, protocol |-> "HTTP"])
                   /\ uniqueDomains' = uniqueDomains \cup {dest.hostname}
                   /\ hphase' = "forwarding"
                   /\ proxyReq'.hostname = dest.hostname
              ELSE logEntries' = logEntries /\ uniqueDomains' = uniqueDomains
        /\ hphase # "idle" =>
              logEntries' = logEntries /\ uniqueDomains' = uniqueDomains

\* C13 (as claimed): every plain request whose host name was resolved (the
\* resolution yields a name that is not empty) appends exactly one LogEntry,
\* whatever the upstream does later.
C13_ResolvedIsLogged ==
    [][LoggedOnce(Resolve(req'.url, req'.host).hostname # <<>>)]_vars

\* what does hold of the code: the same with "resolved" read as the validation
\* of server.ts:108 reads it, a name that is neither empty nor the literal
\* "unknown"
AcceptedIsLogged ==
    [][LoggedOnce(/\ Resolve(req'.url, req'.host).hostname # <<>>
                  /\ Resolve(req'.url, req'.host).hostname # UnknownHost)]_vars

\* ------------------------------------ claims: SNI blocking proxy, errors

\* C14 (as claimed): once a leg of the pair has failed with a socket error
\* (the client socket or the upstream socket, at any point after the client
\* connected), both legs are eventually terminated: the client socket is ended
\* or destroyed and no upstream socket is connecting or open; and at most one
\* upstream connection is attempted for the client connection.
C14_ErrorTearsDownBothLegs ==
    /\ [](connects <= 1)
    /\ (clientSocket = "destroyed" \/ remoteSocket = "destroyed")
          ~> (/\ clientSocket \in {"ended", "destroyed"}
              /\ remoteSocket \in {"none", "ended", "destroyed"})

\* -------------------------------------- claims: CONNECT tunnel, teardown

\* C15 (as claimed): once a side of a CONNECT tunnel has closed or failed, the
\* other side is eventually torn down too, also when the client fails while
\* the upstream connect is pending; neither the 200 line nor any other bytes
\* are ever written to a socket that is no longer writable; and one upstream
\* connection is attempted per request.
C15_TunnelTeardown ==
    /\ [](tunnelConnects <= 1)
    /\ [](\A k \in 1..Len(tunnelIo) : tunnelIo[k].ok)
    /\ (tunnelClient # "open" \/ serverSocket \in {"ended", "destroyed"})
          ~> (/\ tunnelClient \in {"ended", "destroyed"}
              /\ serverSocket \in {"ended", "destroyed"})

\* ------------------------------------------- claims: upstream ports

\* whether str is a decimal number: one or more digits and nothing else
AllDigits(str) == str # <<>> /\ \A k \in 1..Len(str) : IsDigit(str[k])

\* the position of the last occurrence of character c in str, or 0
LastIndexOf(str, c) ==
    IF \E k \in 1..Len(str) : str[k] = c
    THEN CHOOSE k \in 1..Len(str) :
            str[k] = c /\ \A j \in (k + 1)..Len(str) : str[j] # c
    ELSE 0

\* the upstream port the claim gives a plain request: for an absolute URI its
\* explicit port, else 80 for http and 443 for https; for a request resolved
\* from its Host header the header's port when it is a number, else 80
ClaimedPort(r) ==
    IF StartsWith(r.url, HttpScheme) \/ StartsWith(r.url, HttpsScheme)
    THEN LET https == StartsWith(r.url, HttpsScheme)
             rest  == SubSeq(r.url, (IF https THEN 9 ELSE 8), Len(r.url))
             slash == IndexOf(rest, "/", 1)
             auth  == IF slash = 0 THEN rest ELSE SubSeq(rest, 1, slash - 1)
             colon == LastIndexOf(auth, ":")
             port  == SubSeq(auth, colon + 1, Len(auth))
         IN  IF colon # 0 /\ AllDigits(port) THEN DecimalValue(port)
             ELSE IF https THEN 443 ELSE 80
    ELSE LET colon == LastIndexOf(r.host, ":")
             port  == SubSeq(r.host, colon + 1, Len(r.host))
         IN  IF colon # 0 /\ AllDigits(port) THEN DecimalValue(port) ELSE 80

\* C16 (as claimed): the upstream request of a plain request goes to the
\* URI's explicit port, or to 80 (http) or 443 (https) when the absolute URI
\* names none; for a request resolved from its Host header, to the header's
\* port when present and numeric, otherwise to 80.
C16_ResolvedPort ==
    proxyReq # NoRequest => proxyReq.port = ClaimedPort(req)

\* the upstream the claim gives a CONNECT target host:port: the host part is
\* what precedes the colon that introduces the port, the port is what follows
\* it when that is a number, and 443 when there is none or it is no number
ClaimedTarget(url) ==
    LET colon == LastIndexOf(url, ":")
        port  == SubSeq(url, colon + 1, Len(url))
    IN  [port |-> IF colon # 0 /\ AllDigits(port) THEN DecimalValue(port)
                  ELSE 443,
         host |-> IF colon = 0 THEN url ELSE SubSeq(url, 1, colon - 1)]

\* C17 (as claimed): for every CONNECT target the upstream is opened to the
\* host part of host:port and to the given port when it is numeric, and to
\* port 443 when the port is absent or not numeric.
C17_ConnectTarget ==
    cphase # "idle" => target = ClaimedTarget(connectReq.url)

\* ------------------------------------- claims: reads of the aggregator

\* C18: a call of exportLogs or of getStats leaves the log (content and
\* order) and the set of host names as they were; the exported document holds
\* the whole log as it is at the call, and stats of that same log: its
\* length, the number of its host names, its split by protocol, and per listed
\* host name the number of its entries (all of them listed when there are at
\* most TopN); what getStats returns is computed from the log as it is.
C18_ReadsArePure ==
    [][/\ exportFile' # exportFile =>
             LET st == exportFile'.stats
             IN  /\ logEntries' = logEntries
                 /\ uniqueDomains' = uniqueDomains
                 /\ exportFile'.logs = logEntries
                 /\ st.totalRequests = Len(logEntries)
                 /\ st.uniqueDomains = Cardinality(HostsOf(logEntries))
                 /\ st.protocolStats.http =
                       Cardinality({k \in 1..Len(logEntries) :
                                       logEntries[k].protocol = "HTTP"})
                 /\ st.protocolStats.http + st.protocolStats.https
                       = Len(logEntries)
                 /\ \A i \in 1..Len(st.topDomains) :
                       st.topDomains[i].count
                          = CountOf(logEntries, st.topDomains[i].domain)
                 /\ Len(st.topDomains)
                       = Min(TopN, Cardinality(HostsOf(logEntries)))
       /\ lastStats' # lastStats =>
             /\ logEntries' = logEntries
             /\ uniqueDomains' = uniqueDomains
             /\ lastStats'.of = logEntries
             /\ lastStats'.value.totalRequests = Len(logEntries)]_vars

C18_Witness ==
    /\ Len(logEntries) = 2 /\ Cardinality(uniqueDomains) = 2
    /\ exportFile.logs = logEntries
    /\ exportFile.stats.totalRequests = 2
    /\ exportFile.stats.protocolStats = [http |-> 1, https |-> 1]
    /\ lastStats.of = logEntries

\* ------------------------------- claims: SNI blocking proxy, first chunk

\* C19 (as claimed): once the first chunk was handled the connection is
\* either blocked, and then the parsed name is a member of the block list and
\* no upstream connection was attempted, or exactly one upstream connection
\* was attempted; a first chunk that yields no host name (not a handshake,
\* malformed, truncated, without server-name extension) is not blocked and has
\* its forward attempt; and the parser saw the first chunk only.
C19_BlockOrForward ==
    sphase # "accepted" =>
        /\ firstData = received[1]
        /\ \/ /\ sphase = "blocked"
              /\ sni.kind = "string" /\ sni.sni \in BLOCKED_DOMAINS
              /\ connects = 0
           \/ /\ sphase \in {"connecting", "tunneling"}
              /\ connects = 1
        /\ sni.kind # "string" =>
              sphase \in {"connecting", "tunneling"} /\ connects = 1

\* C20 (as claimed): on a connection that is not blocked and whose upstream
\* connect succeeded, what has been written to the upstream while both
\* sockets are open is everything the client sent, the first chunk and every
\* later one, unmodified and in the order sent, whether a chunk arrived before
\* or after the connect completed.
C20_LaterChunksForwarded ==
    (sphase = "tunneling" /\ clientSocket = "open" /\ remoteSocket = "open")
        => remoteWritten = received

====
